---- MODULE Spec2Model ----
(***************************************************************************)
(* Model of the tp-comfy setup scripts: the node registry (add_node.py),   *)
(* the node synchroniser (download_nodes.py) and the model registry        *)
(* (add_model.py).  Strings are sequences of one-character strings so that *)
(* the Python string operations are computed, not assumed.                 *)
(***************************************************************************)
EXTENDS Integers, Sequences, FiniteSets, TLC

VARIABLES
    nodes_yaml,     \* setup/nodes.yaml: [exists, lines]
    disk,           \* directories under nodes_dir: set of [name, origin]
    pc,             \* position of download_nodes.main
    repos,          \* download_nodes.main: the loaded list of URLs
    idx,            \* download_nodes.main: index of the next entry of repos
    success_count,  \* download_nodes.main
    fail_count,     \* download_nodes.main
    log,            \* LOGGER / git invocations of the current run, in order
    exit_code,      \* process exit status of the last finished script (-1: running)
    rerun,          \* TRUE once download_nodes has been run a second time
    report,         \* download_nodes.main: the summary line and the tip
    add_pc,         \* position of add_node / add_model
    add_prev,       \* the registry file as it was when the add operation started
    add_buf,        \* lines of the dump not yet written to the file
    add_req,        \* the arguments of the add operation in progress / last run
    models_yaml,    \* setup/models.yaml: [exists, lines]
    machine,        \* detect_gpu: what the platform and the vendor tools answer
    gpu_pc,         \* position of detect_gpu.main
    gpu_info,       \* detect_gpu.main: the profile detected so far
    probes,         \* detect_gpu: the commands run, in order, with the code returned
    plan,           \* detect_gpu.main: (backend, install_cmd) or the error raised
    dm_pc,          \* position of download_models.main
    models,         \* download_models.main: the loaded list of models
    aria2_content,  \* download_models.main: the lines of the aria2c input
    temp_file,      \* download_models.main: the temporary input file
    aria2_runs      \* the aria2c invocations: the input file read and the exit code

vars == <<nodes_yaml, disk, pc, repos, idx, success_count, fail_count, log,
          exit_code, rerun, report, add_pc, add_prev, add_buf, add_req,
          models_yaml, machine, gpu_pc, gpu_info, probes, plan,
          dm_pc, models, aria2_content, temp_file, aria2_runs>>

sync_vars == <<disk, pc, repos, idx, success_count, fail_count, log, rerun, report>>
add_vars == <<add_pc, add_prev, add_buf, add_req>>
gpu_vars == <<machine, gpu_pc, gpu_info, probes, plan>>
dm_vars == <<dm_pc, models, aria2_content, temp_file, aria2_runs>>

(***************************************************************************)
(* Bounds                                                                  *)
(***************************************************************************)
MaxRepos == 3       \* longest registry list enumerated for a sync run
MaxAdds == 3        \* most entries the node registry grows to
MaxModels == 2      \* most entries the model registry grows to
MaxDerived == 1     \* most entries in the model registry before a run that derives the name adds one
MaxAssets == 2      \* most items in the model registry of a download run

(***************************************************************************)
(* Python str operations on sequences of characters                        *)
(***************************************************************************)
Last(s) == s[Len(s)]
Front(s) == SubSeq(s, 1, Len(s) - 1)

\* str.endswith(suf)
EndsWith(s, suf) ==
    /\ Len(s) >= Len(suf)
    /\ SubSeq(s, Len(s) - Len(suf) + 1, Len(s)) = suf

\* str.startswith(pre)
StartsWith(s, pre) ==
    /\ Len(s) >= Len(pre)
    /\ SubSeq(s, 1, Len(pre)) = pre

\* str.rstrip(chars): drops trailing characters that are members of chars
RECURSIVE RStrip(_, _)
RStrip(s, chars) ==
    IF s # <<>> /\ Last(s) \in chars THEN RStrip(Front(s), chars) ELSE s

\* c in s
Contains(s, c) == \E i \in 1..Len(s) : s[i] = c

\* str.count(c) for a single character
Count(s, c) == Cardinality({i \in 1..Len(s) : s[i] = c})

\* s.split(c)[-1]: the text after the last occurrence of c
RECURSIVE AfterLast(_, _)
AfterLast(s, c) ==
    IF s = <<>> \/ Last(s) = c THEN <<>>
    ELSE Append(AfterLast(Front(s), c), Last(s))

\* str.replace(old, ""): removes the non-overlapping occurrences, left to right
RECURSIVE Remove(_, _)
Remove(s, old) ==
    IF s = <<>> THEN <<>>
    ELSE IF StartsWith(s, old) THEN Remove(SubSeq(s, Len(old) + 1, Len(s)), old)
    ELSE <<s[1]>> \o Remove(Tail(s), old)

DotGit == <<".", "g", "i", "t">>
DotGitChars == {".", "g", "i", "t"}
Slash == "/"
GitHub == <<"h","t","t","p","s",":","/","/","g","i","t","h","u","b",".","c","o","m","/">>

(***************************************************************************)
(* The registry document: yaml.safe_load / yaml.dump on a file of lines    *)
(***************************************************************************)
\* A line of the file: "cat:", "cat: []", "- url" (a node), "- url: .. name: .."
\* (a model), "{}"
KeyLine(c) == [k |-> "key", cat |-> c, url |-> <<>>, name |-> <<>>]
EmptyListLine(c) == [k |-> "key_empty", cat |-> c, url |-> <<>>, name |-> <<>>]
ItemLine(u) == [k |-> "item", cat |-> "", url |-> u, name |-> <<>>]
DictLine(m) == [k |-> "item", cat |-> "", url |-> m.url, name |-> m.name]
FlowEmptyLine == [k |-> "flow_empty", cat |-> "", url |-> <<>>, name |-> <<>>]

\* The value an item line loads as: a string in nodes.yaml, a dict in models.yaml
Val(kind, l) == IF kind = "nodes" THEN l.url ELSE [url |-> l.url, name |-> l.name]
Line(kind, v) == IF kind = "nodes" THEN ItemLine(v) ELSE DictLine(v)

NoFile == [exists |-> FALSE, lines |-> <<>>]
File(ls) == [exists |-> TRUE, lines |-> ls]

\* One mapping entry of the loaded document; a key without items loads as None.
Entry(c, isList, us) == [cat |-> c, isList |-> isList, urls |-> us]

RECURSIVE ParseLines(_, _)
ParseLines(ls, kind) ==
    IF ls = <<>> THEN <<>>
    ELSE LET before == ParseLines(Front(ls), kind)
             l == Last(ls)
         IN  CASE l.k = "key" -> Append(before, Entry(l.cat, FALSE, <<>>))
               [] l.k = "key_empty" -> Append(before, Entry(l.cat, TRUE, <<>>))
               [] l.k = "item" ->
                    IF before = <<>> THEN <<>>
                    ELSE LET e == Last(before)
                         IN  Append(Front(before),
                                    Entry(e.cat, TRUE, Append(e.urls, Val(kind, l))))
               [] OTHER -> before

\* yaml.safe_load(f): None for an empty stream, else the mapping
safe_load(ls, kind) ==
    IF ls = <<>> THEN [isNone |-> TRUE, map |-> <<>>]
    ELSE [isNone |-> FALSE, map |-> ParseLines(ls, kind)]

RECURSIVE ItemLines(_, _)
ItemLines(us, kind) ==
    IF us = <<>> THEN <<>> ELSE <<Line(kind, us[1])>> \o ItemLines(Tail(us), kind)

RECURSIVE DumpEntries(_, _)
DumpEntries(map, kind) ==
    IF map = <<>> THEN <<>>
    ELSE LET e == map[1]
         IN  (IF ~e.isList THEN <<KeyLine(e.cat)>>
              ELSE IF e.urls = <<>> THEN <<EmptyListLine(e.cat)>>
              ELSE <<KeyLine(e.cat)>> \o ItemLines(e.urls, kind))
             \o DumpEntries(Tail(map), kind)

\* yaml.dump(config, f, default_flow_style=False, sort_keys=False)
dump(map, kind) == IF map = <<>> THEN <<FlowEmptyLine>> ELSE DumpEntries(map, kind)

(***************************************************************************)
(* download_nodes.py                                                       *)
(***************************************************************************)
\* extract_repo_name: [none |-> TRUE] stands for None
extract_repo_name(url) ==
    LET u == RStrip(RStrip(url, {Slash}), DotGitChars)
    IN  IF Contains(u, Slash)
        THEN [none |-> FALSE, name |-> AfterLast(u, Slash)]
        ELSE [none |-> TRUE, name |-> <<>>]

DirNames(dirs) == {d.name : d \in dirs}
OriginOf(dirs, n) == (CHOOSE d \in dirs : d.name = n).origin

PullFlags == {"--ff-only"}
CloneFlags == {"--depth=1", "--no-tags", "--recurse-submodules", "--shallow-submodules"}

Event(entry, op, flags, dir, remote, rc, ret, msg, dirs) ==
    [entry |-> entry, op |-> op, flags |-> flags, dir |-> dir, remote |-> remote,
     rc |-> rc, ret |-> ret, msg |-> msg, dirs |-> DirNames(dirs)]

\* The URL handed to git: line 39-40
WithDotGit(url) == IF EndsWith(url, DotGit) THEN url ELSE url \o DotGit

\* clone_or_pull that clones whether or not the target directory exists
clone_or_pull_reclone(url, dirs, rc) ==
    LET u == WithDotGit(url)
        repo_name == extract_repo_name(u)
        name == repo_name.name
    IN  IF repo_name.none \/ name = <<>>
        THEN [ret |-> FALSE, dirs |-> dirs,
              ev |-> Event(url, "invalid_url", {}, <<>>, u, 0, FALSE, "invalid_url", dirs)]
        ELSE IF rc # 0
        THEN [ret |-> FALSE, dirs |-> dirs,
              ev |-> Event(url, "clone", CloneFlags, name, u, rc, FALSE, "clone_failed", dirs)]
        ELSE LET made == {d \in dirs : d.name # name} \cup {[name |-> name, origin |-> u]}
             IN  [ret |-> TRUE, dirs |-> made,
                  ev |-> Event(url, "clone", CloneFlags, name, u, rc, TRUE, "cloning_node", made)]

\* clone_or_pull that reports a failed pull as a failure
clone_or_pull_pull_fatal(url, dirs, rc) ==
    LET u == WithDotGit(url)
        repo_name == extract_repo_name(u)
        name == repo_name.name
    IN  IF repo_name.none \/ name = <<>>
        THEN [ret |-> FALSE, dirs |-> dirs,
              ev |-> Event(url, "invalid_url", {}, <<>>, u, 0, FALSE, "invalid_url", dirs)]
        ELSE IF name \in DirNames(dirs)
        THEN [ret |-> rc = 0, dirs |-> dirs,
              ev |-> Event(url, "pull", PullFlags, name, OriginOf(dirs, name), rc, rc = 0,
                           IF rc # 0 THEN "update_skipped" ELSE "updating_node", dirs)]
        ELSE IF rc # 0
        THEN [ret |-> FALSE, dirs |-> dirs,
              ev |-> Event(url, "clone", CloneFlags, name, u, rc, FALSE, "clone_failed", dirs)]
        ELSE LET made == dirs \cup {[name |-> name, origin |-> u]}
             IN  [ret |-> TRUE, dirs |-> made,
                  ev |-> Event(url, "clone", CloneFlags, name, u, rc, TRUE, "cloning_node", made)]

\* clone_or_pull(url, nodes_dir) with rc the return code git gives; the result
\* is the return value, the directories afterwards and what was run and logged
\* (msg is the last LOGGER event of the call).
clone_or_pull(url, dirs, rc) ==
    LET u == WithDotGit(url)
        repo_name == extract_repo_name(u)
        name == repo_name.name
    IN  IF repo_name.none \/ name = <<>>
        THEN [ret |-> FALSE, dirs |-> dirs,
              ev |-> Event(url, "invalid_url", {}, <<>>, u, 0, FALSE, "invalid_url", dirs)]
        ELSE IF name \in DirNames(dirs)
        THEN [ret |-> TRUE, dirs |-> dirs,
              ev |-> Event(url, "pull", PullFlags, name, OriginOf(dirs, name), rc, TRUE,
                           IF rc # 0 THEN "update_skipped" ELSE "updating_node", dirs)]
        ELSE IF rc # 0
        THEN [ret |-> FALSE, dirs |-> dirs,
              ev |-> Event(url, "clone", CloneFlags, name, u, rc, FALSE, "clone_failed", dirs)]
        ELSE LET made == dirs \cup {[name |-> name, origin |-> u]}
             IN  [ret |-> TRUE, dirs |-> made,
                  ev |-> Event(url, "clone", CloneFlags, name, u, rc, TRUE, "cloning_node", made)]

\* load_repos_from_yaml: the lists of every category, concatenated in order
RECURSIVE load_repos_from_yaml(_)
load_repos_from_yaml(map) ==
    IF map = <<>> THEN <<>>
    ELSE (IF map[1].isList THEN map[1].urls ELSE <<>>)
         \o load_repos_from_yaml(Tail(map))

NoReport == [printed |-> FALSE, successful |-> 0, failed |-> 0, tip |-> FALSE]

\* main, lines 96-118: the config check, the load and the counters
MainStart ==
    /\ pc = "start"
    /\ IF ~nodes_yaml.exists
       THEN /\ pc' = "exited"
            /\ exit_code' = 1
            /\ repos' = <<>>
       ELSE LET config == safe_load(nodes_yaml.lines, "nodes")
            IN  IF config.isNone
                THEN \* config.items() on None raises AttributeError
                     /\ pc' = "crashed"
                     /\ exit_code' = 1
                     /\ repos' = <<>>
                ELSE /\ pc' = "loop"
                     /\ exit_code' = exit_code
                     /\ repos' = load_repos_from_yaml(config.map)
    /\ idx' = 1
    /\ success_count' = 0
    /\ fail_count' = 0
    /\ UNCHANGED <<nodes_yaml, disk, log, rerun, report, models_yaml>>
    /\ UNCHANGED add_vars
    /\ UNCHANGED <<gpu_vars, dm_vars>>

GitReturnCodes == {0, 1}

\* the loop of main leaving at the first failed entry
MainIterStopsOnFailure ==
    /\ pc = "loop"
    /\ idx <= Len(repos)
    /\ \E rc \in GitReturnCodes :
       \E r \in {clone_or_pull(repos[idx], disk, rc)} :
              /\ disk' = r.dirs
              /\ log' = Append(log, r.ev)
              /\ success_count' = IF r.ret THEN success_count + 1 ELSE success_count
              /\ fail_count' = IF r.ret THEN fail_count ELSE fail_count + 1
              /\ idx' = IF r.ret THEN idx + 1 ELSE Len(repos) + 1
    /\ UNCHANGED <<nodes_yaml, pc, repos, exit_code, rerun, report, models_yaml>>
    /\ UNCHANGED add_vars
    /\ UNCHANGED <<gpu_vars, dm_vars>>

\* main, lines 120-124: one iteration of the loop
MainIter ==
    /\ pc = "loop"
    /\ idx <= Len(repos)
    /\ \E rc \in GitReturnCodes :
       \E r \in {clone_or_pull(repos[idx], disk, rc)} :
              /\ disk' = r.dirs
              /\ log' = Append(log, r.ev)
              /\ success_count' = IF r.ret THEN success_count + 1 ELSE success_count
              /\ fail_count' = IF r.ret THEN fail_count ELSE fail_count + 1
    /\ idx' = idx + 1
    /\ UNCHANGED <<nodes_yaml, pc, repos, exit_code, rerun, report, models_yaml>>
    /\ UNCHANGED add_vars
    /\ UNCHANGED <<gpu_vars, dm_vars>>

\* the summary with the tip printed whatever the failed count
SummaryAlwaysTip(succ, fail) ==
    [printed |-> TRUE, successful |-> succ, failed |-> fail, tip |-> TRUE]

\* the summary and the tip of main, lines 126-134
Summary(succ, fail) ==
    [printed |-> TRUE, successful |-> succ, failed |-> fail, tip |-> fail = 0]

\* the exit status main ends with: it never calls sys.exit after the loop
MainExitCode(fail) == 0

\* main, lines 126-134: the loop is over
MainFinish ==
    /\ pc = "loop"
    /\ idx > Len(repos)
    /\ report' = Summary(success_count, fail_count)
    /\ exit_code' = MainExitCode(fail_count)
    /\ pc' = "done"
    /\ UNCHANGED <<nodes_yaml, disk, repos, idx, success_count, fail_count, log,
                   rerun, models_yaml>>
    /\ UNCHANGED add_vars
    /\ UNCHANGED <<gpu_vars, dm_vars>>

\* the script is run once more against the same registry and destination root
MainAgain ==
    /\ pc = "done"
    /\ ~rerun
    /\ rerun' = TRUE
    /\ pc' = "start"
    /\ exit_code' = -1
    /\ report' = NoReport
    /\ UNCHANGED <<nodes_yaml, disk, repos, idx, success_count, fail_count, log,
                   models_yaml>>
    /\ UNCHANGED add_vars
    /\ UNCHANGED <<gpu_vars, dm_vars>>

\* The repository URLs the registries are built from
UrlAX == GitHub \o <<"a", "/", "X">>
UrlBX == GitHub \o <<"b", "/", "X">>
UrlAXGit == UrlAX \o DotGit
UrlAXSlash == UrlAX \o <<"/">>
UrlANet == GitHub \o <<"a", "/", "N", "e", "t">>
UrlBare == <<"X">>
SyncUrls == {UrlAX, UrlBX, UrlAXGit, UrlAXSlash, UrlANet, UrlBare}

RECURSIVE SeqsUpTo(_, _)
SeqsUpTo(S, n) ==
    IF n = 0 THEN {<<>>}
    ELSE LET shorter == SeqsUpTo(S, n - 1)
         IN  shorter \cup {Append(s, x) : s \in {t \in shorter : Len(t) = n - 1}, x \in S}

\* A registry document listing us: the first URL under "manager", the others
\* under "utilities", after a key without a list.
DocOf(us) ==
    IF us = <<>> THEN <<FlowEmptyLine>>
    ELSE IF Len(us) = 1 THEN <<KeyLine("utilities")>> \o ItemLines(us, "nodes")
    ELSE <<KeyLine("other"), KeyLine("manager"), ItemLine(us[1]), KeyLine("utilities")>>
         \o ItemLines(Tail(us), "nodes")

SyncFiles ==
    {NoFile, File(<<>>), File(<<EmptyListLine("utilities")>>)}
    \cup {File(DocOf(us)) : us \in SeqsUpTo(SyncUrls, MaxRepos)}

NoRequest ==
    [url |-> <<>>, key |-> "", name |-> <<>>, answer |-> <<>>, prompted |-> FALSE,
     outcome |-> "none"]

\* detect_gpu.py has not been run
\* gpu_info is None; a profile's cuda_version is None when cuda_known is FALSE
NoGpu == [type |-> "none", name |-> <<>>, driver |-> <<>>, memory |-> <<>>,
          cuda_known |-> FALSE, cuda_version |-> <<>>]
NoPlan == [made |-> FALSE, raised |-> FALSE, backend |-> "", cuda |-> "", cmd |-> <<>>]
NoTool == [result |-> "missing", code |-> 0, out |-> <<>>]
GpuIdle ==
    /\ machine = [system |-> "Linux", query |-> NoTool, smi |-> NoTool,
                  sysctl |-> NoTool, rocm |-> NoTool, nightly |-> FALSE]
    /\ gpu_pc = "idle"
    /\ gpu_info = NoGpu
    /\ probes = <<>>
    /\ plan = NoPlan

\* download_models.py has not been run
DmIdle ==
    /\ dm_pc = "idle"
    /\ models = <<>>
    /\ aria2_content = <<>>
    /\ temp_file = NoFile
    /\ aria2_runs = <<>>

AddIdle ==
    /\ add_pc = "idle"
    /\ add_prev = NoFile
    /\ add_buf = <<>>
    /\ add_req = NoRequest

InitSync ==
    /\ nodes_yaml \in SyncFiles
    /\ models_yaml = NoFile
    /\ disk = {}
    /\ pc = "start"
    /\ repos = <<>>
    /\ idx = 1
    /\ success_count = 0
    /\ fail_count = 0
    /\ log = <<>>
    /\ exit_code = -1
    /\ rerun = FALSE
    /\ report = NoReport
    /\ AddIdle
    /\ GpuIdle
    /\ DmIdle

NextSync == MainStart \/ MainIter \/ MainFinish \/ MainAgain

SpecSync == InitSync /\ [][NextSync]_vars

(***************************************************************************)
(* Writing a registry file: open(CONFIG_FILE, "w"), yaml.dump, close       *)
(***************************************************************************)
Items(ls) == {i \in 1..Len(ls) : ls[i].k = "item"}

\* yaml.dump writes the next line of the document to the open file
WriteLine ==
    /\ add_pc \in {"writing_nodes", "writing_models"}
    /\ add_buf # <<>>
    /\ add_buf' = Tail(add_buf)
    /\ IF add_pc = "writing_nodes"
       THEN /\ nodes_yaml' = File(Append(nodes_yaml.lines, Head(add_buf)))
            /\ UNCHANGED models_yaml
       ELSE /\ models_yaml' = File(Append(models_yaml.lines, Head(add_buf)))
            /\ UNCHANGED nodes_yaml
    /\ UNCHANGED <<add_pc, add_prev, add_req, exit_code>>
    /\ UNCHANGED sync_vars
    /\ UNCHANGED <<gpu_vars, dm_vars>>

\* the with block ends: the file is closed and the script logs and returns
WriteClose ==
    /\ add_pc \in {"writing_nodes", "writing_models"}
    /\ add_buf = <<>>
    /\ add_pc' = "idle"
    /\ add_req' = [add_req EXCEPT !.outcome = "added"]
    /\ exit_code' = 0
    /\ UNCHANGED <<nodes_yaml, models_yaml, add_prev, add_buf>>
    /\ UNCHANGED sync_vars
    /\ UNCHANGED <<gpu_vars, dm_vars>>

\* the write fails or the process is interrupted while the file is open
WriteInterrupted ==
    /\ add_pc \in {"writing_nodes", "writing_models"}
    /\ add_pc' = "idle"
    /\ add_buf' = <<>>
    /\ add_req' = [add_req EXCEPT !.outcome = "interrupted"]
    /\ exit_code' = 1
    /\ UNCHANGED <<nodes_yaml, models_yaml, add_prev>>
    /\ UNCHANGED sync_vars
    /\ UNCHANGED <<gpu_vars, dm_vars>>

\* config[key].append(v), after "if key not in config: config[key] = []";
\* appending to a key that loaded as None raises AttributeError
HasKey(map, c) == \E i \in 1..Len(map) : map[i].cat = c
KeyIndex(map, c) == CHOOSE i \in 1..Len(map) : map[i].cat = c
CanAppend(map, c) == ~HasKey(map, c) \/ map[KeyIndex(map, c)].isList
config_append(map, c, v) ==
    IF ~HasKey(map, c) THEN Append(map, Entry(c, TRUE, <<v>>))
    ELSE [map EXCEPT ![KeyIndex(map, c)].urls = Append(@, v)]

\* "yaml.safe_load(f) or {}" if the file exists, else {}
load_config(file, kind) ==
    IF file.exists THEN safe_load(file.lines, kind).map ELSE <<>>

(***************************************************************************)
(* add_node.py                                                             *)
(***************************************************************************)
VALID_CATEGORIES ==
    {"manager", "utilities", "image_output", "prompt_styling", "upscaling",
     "controlnet_depth", "face_portrait", "segmentation", "video_animation",
     "vision_tagging", "advanced", "translation", "other"}

\* add_node, lines 116-118
normalize_url(url) ==
    LET u == RStrip(url, {Slash})
    IN  IF EndsWith(u, DotGit) THEN SubSeq(u, 1, Len(u) - 4) ELSE u

\* add_node, line 121
looks_like_github(url) == StartsWith(url, GitHub) /\ Count(url, Slash) >= 4

\* the category check of add_node keeping an unknown category as it is
normalize_category_keep(category) == category

\* add_node, lines 126-128
normalize_category(category) ==
    IF category \in VALID_CATEGORIES THEN category ELSE "other"

\* add_node, line 143
existing_normalized(existing_url) ==
    Remove(RStrip(RStrip(existing_url, {Slash}), DotGitChars), DotGit)

\* add_node, lines 140-146: the URL is found in some category
node_exists(config, url) ==
    \E i \in 1..Len(config) :
        /\ config[i].isList
        /\ \E j \in 1..Len(config[i].urls) : existing_normalized(config[i].urls[j]) = url

\* add_node up to the write: what it decides and the config it would dump
add_node(url0, category0, file) ==
    LET url == normalize_url(url0)
        category == normalize_category(category0)
        config == load_config(file, "nodes")
    IN  IF ~looks_like_github(url)
        THEN [outcome |-> "invalid_url", exit |-> 1, config |-> config]
        ELSE IF node_exists(config, url)
        THEN [outcome |-> "node_exists", exit |-> 0, config |-> config]
        ELSE IF ~CanAppend(config, category)
        THEN [outcome |-> "crashed", exit |-> 1, config |-> config]
        ELSE [outcome |-> "write", exit |-> 0,
              config |-> config_append(config, category, url)]

UrlOwnerOnly == GitHub \o <<"a">>
AddUrls == {UrlAX, UrlAXGit, UrlAXSlash, UrlBX, UrlANet, UrlBare, UrlOwnerOnly}
AddCategories == {"utilities", "nodes"}

Request(url, key, name, answer, prompted, outcome) ==
    [url |-> url, key |-> key, name |-> name, answer |-> answer,
     prompted |-> prompted, outcome |-> outcome]

\* add_node.py is run with a URL and a category
AddNode ==
    /\ add_pc = "idle"
    /\ \E url \in AddUrls, category \in AddCategories :
       \E r \in {add_node(url, category, nodes_yaml)} :
              /\ r.outcome = "write" => Cardinality(Items(nodes_yaml.lines)) < MaxAdds
              /\ add_prev' = nodes_yaml
              /\ IF r.outcome = "write"
                 THEN /\ nodes_yaml' = File(<<>>)
                      /\ add_buf' = dump(r.config, "nodes")
                      /\ add_pc' = "writing_nodes"
                      /\ exit_code' = -1
                 ELSE /\ UNCHANGED <<nodes_yaml, add_buf, add_pc>>
                      /\ exit_code' = r.exit
              /\ add_req' = Request(url, category, <<>>, <<>>, FALSE, r.outcome)
    /\ UNCHANGED models_yaml
    /\ UNCHANGED sync_vars
    /\ UNCHANGED <<gpu_vars, dm_vars>>

NodeFiles ==
    {NoFile, File(<<>>), File(DocOf(<<UrlBX>>)), File(DocOf(<<UrlAXGit>>))}

SyncIdle ==
    /\ disk = {}
    /\ pc = "start"
    /\ repos = <<>>
    /\ idx = 1
    /\ success_count = 0
    /\ fail_count = 0
    /\ log = <<>>
    /\ rerun = FALSE
    /\ report = NoReport

InitAddNode ==
    /\ nodes_yaml \in NodeFiles
    /\ models_yaml = NoFile
    /\ exit_code = -1
    /\ SyncIdle
    /\ AddIdle
    /\ GpuIdle
    /\ DmIdle

NextAddNode == AddNode \/ WriteLine \/ WriteClose \/ WriteInterrupted

SpecAddNode == InitAddNode /\ [][NextAddNode]_vars

(***************************************************************************)
(* add_model.py                                                            *)
(***************************************************************************)
VALID_FOLDERS ==
    {"checkpoints", "clip", "clip_vision", "configs", "controlnet", "controlnet/flux",
     "diffusers", "diffusion_models", "embeddings", "gligen", "hypernetworks", "loras",
     "photomaker", "style_models", "unet", "upscale_models", "vae", "vae_approx", "sam2",
     "ultralytics/bbox", "ultralytics/segm", "mmdets", "onnx", "liveportrait"}

\* the index of the first character of s that is in chars, Len(s) + 1 if none
FirstOf(s, chars) ==
    IF \E i \in 1..Len(s) : s[i] \in chars
    THEN CHOOSE i \in 1..Len(s) : s[i] \in chars /\ \A j \in 1..(i - 1) : s[j] \notin chars
    ELSE Len(s) + 1

\* urlparse(url).path for scheme://netloc/path?query#fragment: what follows
\* the netloc, up to the query or the fragment
url_path(url) ==
    LET colon == FirstOf(url, {":"})
        rest == IF colon <= Len(url) THEN SubSeq(url, colon + 1, Len(url)) ELSE url
        after == IF StartsWith(rest, <<Slash, Slash>>)
                 THEN LET r == SubSeq(rest, 3, Len(rest))
                      IN  SubSeq(r, FirstOf(r, {Slash, "?", "#"}), Len(r))
                 ELSE rest
    IN  SubSeq(after, 1, FirstOf(after, {"?", "#"}) - 1)

\* the percent escapes the model decodes
Escapes == (<<"3", "F">> :> "?") @@ (<<"2", "F">> :> "/") @@ (<<"2", "0">> :> " ")

\* urllib.parse.unquote
RECURSIVE unquote(_)
unquote(s) ==
    IF s = <<>> THEN <<>>
    ELSE IF s[1] = "%" /\ Len(s) >= 3 /\ <<s[2], s[3]>> \in DOMAIN Escapes
    THEN <<Escapes[<<s[2], s[3]>>]>> \o unquote(SubSeq(s, 4, Len(s)))
    ELSE <<s[1]>> \o unquote(Tail(s))

\* s.split(c)[0]
BeforeFirst(s, c) == SubSeq(s, 1, FirstOf(s, {c}) - 1)

\* Path(path).name: the last component, empty and "." components dropped
RECURSIVE path_name(_)
path_name(path) ==
    IF path = <<>> THEN <<>>
    ELSE LET last == AfterLast(path, Slash)
             front == SubSeq(path, 1, Len(path) - Len(last))
         IN  IF last = <<>> \/ last = <<".">>
             THEN path_name(RStrip(front, {Slash}))
             ELSE last

Digits == {"0", "1", "2", "3", "4", "5", "6", "7", "8", "9"}
\* str.isdigit
isdigit(s) == s # <<>> /\ \A i \in 1..Len(s) : s[i] \in Digits

Download == <<"d", "o", "w", "n", "l", "o", "a", "d">>
Resolve == <<"r", "e", "s", "o", "l", "v", "e">>

\* extract_filename without the test of line 67 for a numeric name
extract_filename_numeric(url) ==
    LET filename == path_name(unquote(url_path(url)))
    IN  IF filename = <<>> \/ filename \in {Download, Resolve}
        THEN <<>>
        ELSE IF Contains(filename, "?") THEN BeforeFirst(filename, "?")
        ELSE filename

\* extract_filename: <<>> stands for None
extract_filename(url) ==
    LET filename == path_name(unquote(url_path(url)))
    IN  IF filename = <<>> \/ filename \in {Download, Resolve} \/ isdigit(filename)
        THEN <<>>
        ELSE IF Contains(filename, "?") THEN BeforeFirst(filename, "?")
        ELSE filename

\* str.strip() and str.lower() on the answers the model enters
Whitespace == {" "}
RECURSIVE LStrip(_, _)
LStrip(s, chars) == IF s # <<>> /\ s[1] \in chars THEN LStrip(Tail(s), chars) ELSE s
strip(s) == LStrip(RStrip(s, Whitespace), Whitespace)
LowerOf(c) == IF c = "Y" THEN "y" ELSE IF c = "N" THEN "n" ELSE c
lower(s) == [i \in 1..Len(s) |-> LowerOf(s[i])]

\* the comparison of line 187 with the default answer taken as a yes
confirmed_unless_no(answer) == lower(strip(answer)) # <<"n">>

\* add_model, lines 186-187: the answer to "Add anyway? [y/N]" is a yes
confirmed(answer) == lower(strip(answer)) = <<"y">>

\* add_model, lines 182-185: an item of the folder is a dict with this name
model_exists(config, folder, filename) ==
    /\ HasKey(config, folder)
    /\ LET items == config[KeyIndex(config, folder)].urls
       IN  \E i \in 1..Len(items) : items[i].name = filename

\* add_model up to the write: what it decides and the config it would dump
add_model(url, folder, new_name, answer, file) ==
    LET filename == IF new_name # <<>> THEN new_name ELSE extract_filename(url)
        config == load_config(file, "models")
        prompted == model_exists(config, folder, filename)
        quit(outcome, exit, asked) ==
            [outcome |-> outcome, exit |-> exit, config |-> config,
             prompted |-> asked, filename |-> filename]
    IN  IF folder \notin VALID_FOLDERS THEN quit("invalid_folder", 1, FALSE)
        ELSE IF filename = <<>> THEN quit("filename_extraction_failed", 1, FALSE)
        ELSE IF ~CanAppend(config, folder) THEN quit("crashed", 1, FALSE)
        ELSE IF prompted /\ ~confirmed(answer) THEN quit("cancelled", 0, TRUE)
        ELSE [outcome |-> "write", exit |-> 0, prompted |-> prompted,
              filename |-> filename,
              config |-> config_append(config, folder, [url |-> url, name |-> filename])]

Host == <<"h", "t", "t", "p", "s", ":", "/", "/", "h", "/">>
NameMS == <<"m", ".", "s">>
UrlModel == Host \o <<"a", "/">> \o NameMS
UrlModelQuery == UrlModel \o <<"?", "x", "=", "1">>
UrlResolve == Host \o <<"a", "/">> \o Resolve
UrlNumeric == Host \o <<"a", "/", "1", "2">>
UrlEscaped == Host \o <<"m", "%", "3", "F", "v">>
ModelUrls == {UrlModel, UrlModelQuery, UrlResolve, UrlNumeric, UrlEscaped}
ModelFolders == {"loras", "models"}
ModelNames == {<<>>, NameMS}
Answers == {<<"y">>, <<"Y">>, <<" ", "y">>, <<"n">>, <<>>, <<"y", "e", "s">>}

\* add_model.py is run with a URL, a folder and a name; answer is what is
\* typed if the script asks "Add anyway?"
RunAddModel(urls, names, max) ==
    /\ add_pc = "idle"
    /\ \E url \in urls, folder \in ModelFolders, new_name \in names :
       \E answer \in (IF add_model(url, folder, new_name, <<>>, models_yaml).prompted
                      THEN Answers ELSE {<<>>}) :
       \E r \in {add_model(url, folder, new_name, answer, models_yaml)} :
              /\ r.outcome = "write" => Cardinality(Items(models_yaml.lines)) < max
              /\ add_prev' = models_yaml
              /\ IF r.outcome = "write"
                 THEN /\ models_yaml' = File(<<>>)
                      /\ add_buf' = dump(r.config, "models")
                      /\ add_pc' = "writing_models"
                      /\ exit_code' = -1
                 ELSE /\ UNCHANGED <<models_yaml, add_buf, add_pc>>
                      /\ exit_code' = r.exit
              /\ add_req' = Request(url, folder, r.filename,
                                    IF r.prompted THEN answer ELSE <<>>,
                                    r.prompted, r.outcome)
    /\ UNCHANGED nodes_yaml
    /\ UNCHANGED sync_vars
    /\ UNCHANGED <<gpu_vars, dm_vars>>

AddModel == RunAddModel(ModelUrls, ModelNames, MaxModels)

ModelFiles ==
    {NoFile, File(<<>>),
     File(<<KeyLine("loras"), DictLine([url |-> UrlResolve, name |-> NameMS])>>),
     File(<<KeyLine("vae"), DictLine([url |-> UrlModel, name |-> <<>>])>>)}

InitAddModel ==
    /\ models_yaml \in ModelFiles
    /\ nodes_yaml = NoFile
    /\ exit_code = -1
    /\ SyncIdle
    /\ AddIdle
    /\ GpuIdle
    /\ DmIdle

NextAddModel == AddModel \/ WriteLine \/ WriteClose \/ WriteInterrupted

SpecAddModel == InitAddModel /\ [][NextAddModel]_vars

(***************************************************************************)
(* add_model.py run without a name: the filename is derived from the URL   *)
(***************************************************************************)
UrlHostOnly == Host
UrlNoPath == Front(Host)
UrlDownload == Host \o <<"a", "/">> \o Download
UrlNumericQuery == UrlNumeric \o <<"?", "x", "=", "1">>
UrlSpace == Host \o <<"m", "%", "2", "0", "s">>
UrlFragment == UrlModel \o <<"#", "f">>
UrlTrailingSlash == Host \o <<"a", "/">>
UrlNumericEscaped == Host \o <<"1", "2", "%", "3", "F", "x">>
UrlQueryEscaped == Host \o <<"%", "3", "F", "x">>
UrlSlashEscaped == Host \o <<"a", "%", "2", "F">> \o NameMS
FilenameUrls ==
    ModelUrls \cup {UrlHostOnly, UrlNoPath, UrlDownload, UrlNumericQuery, UrlSpace,
                    UrlFragment, UrlTrailingSlash, UrlNumericEscaped, UrlQueryEscaped,
                    UrlSlashEscaped}

AddModelUnnamed == RunAddModel(FilenameUrls, {<<>>}, MaxDerived)

NextFilename == AddModelUnnamed \/ WriteLine \/ WriteClose \/ WriteInterrupted

SpecFilename == InitAddModel /\ [][NextFilename]_vars

(***************************************************************************)
(* The two add scripts side by side: the session has one registry file and *)
(* runs the script of that registry                                        *)
(***************************************************************************)
InitAdd ==
    /\ \/ nodes_yaml \in NodeFiles \ {NoFile} /\ models_yaml = NoFile
       \/ models_yaml \in ModelFiles \ {NoFile} /\ nodes_yaml = NoFile
    /\ exit_code = -1
    /\ SyncIdle
    /\ AddIdle
    /\ GpuIdle
    /\ DmIdle

NextAdd ==
    \/ nodes_yaml.exists /\ AddNode
    \/ models_yaml.exists /\ AddModel
    \/ WriteLine
    \/ WriteClose
    \/ WriteInterrupted

SpecAdd == InitAdd /\ [][NextAdd]_vars

(***************************************************************************)
(* detect_gpu.py                                                           *)
(*                                                                         *)
(* A vendor tool is what subprocess.run meets: the executable is missing,  *)
(* it does not answer within the timeout, or it runs and gives a code and  *)
(* its standard output.  The output of the nvidia-smi query is the first   *)
(* line as its fields (the text between ", "); the output of plain         *)
(* nvidia-smi is the text of its "CUDA Version:" field, empty when the     *)
(* banner has none; the other outputs are the text itself.                 *)
(***************************************************************************)
CUDA_PYTORCH_MAP ==
    (<<"1", "3">> :> "cu130") @@ (<<"1", "2">> :> "cu128") @@ (<<"1", "1">> :> "cu118")

\* sub in s
HasSubstring(s, sub) ==
    \E i \in 1..(Len(s) - Len(sub) + 1) : SubSeq(s, i, i + Len(sub) - 1) = sub

Apple == <<"A", "p", "p", "l", "e">>

\* run_command: the code and the output, (-1, "") when the tool is missing
\* or times out
run_command(tool) ==
    IF tool.result \in {"missing", "timeout"}
    THEN [code |-> -1, stdout |-> <<>>]
    ELSE [code |-> tool.code, stdout |-> tool.out]

Ran(cmd, r) == [cmd |-> cmd, code |-> r.code]

\* detect_nvidia_gpu: the profile, or NoGpu, and the commands it ran
detect_nvidia_gpu(m) ==
    LET q == run_command(m.query)
        parts == q.stdout
        v == run_command(m.smi)
        matched == v.code = 0 /\ v.stdout # <<>>
    IN  IF q.code # 0 \/ parts = <<>> \/ Len(parts) < 3
        THEN [info |-> NoGpu, runs |-> <<Ran("nvidia-smi --query-gpu", q)>>]
        ELSE [info |-> [type |-> "nvidia",
                        name |-> strip(parts[1]),
                        driver |-> strip(parts[2]),
                        memory |-> strip(parts[3]),
                        cuda_known |-> matched,
                        cuda_version |-> IF matched THEN v.stdout ELSE <<>>],
              runs |-> <<Ran("nvidia-smi --query-gpu", q), Ran("nvidia-smi", v)>>]

\* detect_apple_silicon
detect_apple_silicon(m) ==
    LET b == run_command(m.sysctl)
        cpu_brand == strip(b.stdout)
    IN  IF m.system # "Darwin" THEN [info |-> NoGpu, runs |-> <<>>]
        ELSE IF b.code # 0 \/ ~HasSubstring(cpu_brand, Apple)
        THEN [info |-> NoGpu, runs |-> <<Ran("sysctl", b)>>]
        ELSE [info |-> [NoGpu EXCEPT !.type = "mps", !.name = cpu_brand],
              runs |-> <<Ran("sysctl", b)>>]

\* detect_amd_gpu
detect_amd_gpu(m) ==
    LET a == run_command(m.rocm)
    IN  IF a.code # 0
        THEN [info |-> NoGpu, runs |-> <<Ran("rocm-smi", a)>>]
        ELSE [info |-> [NoGpu EXCEPT !.type = "rocm", !.name = strip(a.stdout)],
              runs |-> <<Ran("rocm-smi", a)>>]

Install == <<"uv", "pip", "install">>
Torch == <<"torch", "torchvision", "torchaudio">>
Whl == "https://download.pytorch.org/whl/"

Plan(backend, cuda, cmd) ==
    [made |-> TRUE, raised |-> FALSE, backend |-> backend, cuda |-> cuda, cmd |-> cmd]

\* gpu_info.get("cuda_version", "12").split(".")[0] of a profile whose
\* cuda_version is None: AttributeError
Raised == [NoPlan EXCEPT !.raised = TRUE]

\* get_pytorch_install_command
get_pytorch_install_command(info, use_nightly) ==
    IF info.type = "none"
    THEN Plan("cpu", "", Install \o Torch \o <<"--index-url", Whl \o "cpu">>)
    ELSE IF info.type = "nvidia"
    THEN IF ~info.cuda_known THEN Raised
         ELSE LET cuda_major == BeforeFirst(info.cuda_version, ".")
                  pytorch_cuda == IF cuda_major \in DOMAIN CUDA_PYTORCH_MAP
                                  THEN CUDA_PYTORCH_MAP[cuda_major]
                                  ELSE "cu128"
              IN  IF use_nightly
                  THEN Plan("cuda-nightly (" \o pytorch_cuda \o ")", pytorch_cuda,
                            Install \o <<"--pre">> \o Torch
                            \o <<"--index-url", Whl \o "nightly/" \o pytorch_cuda>>)
                  ELSE IF pytorch_cuda = "cu130"
                  THEN Plan("cuda (" \o pytorch_cuda \o ")", pytorch_cuda,
                            Install \o Torch
                            \o <<"--extra-index-url", Whl \o pytorch_cuda>>)
                  ELSE Plan("cuda (" \o pytorch_cuda \o ")", pytorch_cuda,
                            Install \o Torch \o <<"--index-url", Whl \o pytorch_cuda>>)
    ELSE IF info.type = "mps"
    THEN Plan("mps", "", Install \o Torch)
    ELSE IF info.type = "rocm"
    THEN Plan("rocm", "", Install \o Torch \o <<"--index-url", Whl \o "rocm6.2">>)
    ELSE Plan("cpu", "", Install \o Torch)

\* main: "if gpu_info is None:" before the next probe
after_probe_always(info, next) == next
after_probe(info, next) == IF info.type = "none" THEN next ELSE "recommend"

\* main: gpu_info = detect_nvidia_gpu()
DetectNvidia ==
    /\ gpu_pc = "detect_nvidia"
    /\ \E r \in {detect_nvidia_gpu(machine)} :
        /\ gpu_info' = r.info
        /\ probes' = probes \o r.runs
        /\ gpu_pc' = after_probe(r.info, "detect_apple")
    /\ UNCHANGED <<machine, plan, exit_code, nodes_yaml, models_yaml>>
    /\ UNCHANGED <<sync_vars, add_vars, dm_vars>>

\* main: gpu_info = detect_apple_silicon()
DetectApple ==
    /\ gpu_pc = "detect_apple"
    /\ \E r \in {detect_apple_silicon(machine)} :
        /\ gpu_info' = r.info
        /\ probes' = probes \o r.runs
        /\ gpu_pc' = after_probe(r.info, "detect_amd")
    /\ UNCHANGED <<machine, plan, exit_code, nodes_yaml, models_yaml>>
    /\ UNCHANGED <<sync_vars, add_vars, dm_vars>>

\* main: gpu_info = detect_amd_gpu()
DetectAmd ==
    /\ gpu_pc = "detect_amd"
    /\ \E r \in {detect_amd_gpu(machine)} :
        /\ gpu_info' = r.info
        /\ probes' = probes \o r.runs
        /\ gpu_pc' = "recommend"
    /\ UNCHANGED <<machine, plan, exit_code, nodes_yaml, models_yaml>>
    /\ UNCHANGED <<sync_vars, add_vars, dm_vars>>

\* main: backend, install_cmd = get_pytorch_install_command(...), then the
\* report; an exception ends the interpreter with status 1
Recommend ==
    /\ gpu_pc = "recommend"
    /\ \E p \in {get_pytorch_install_command(gpu_info, machine.nightly)} :
        /\ plan' = p
        /\ gpu_pc' = IF p.raised THEN "crashed" ELSE "done"
        /\ exit_code' = IF p.raised THEN 1 ELSE 0
    /\ UNCHANGED <<machine, gpu_info, probes, nodes_yaml, models_yaml>>
    /\ UNCHANGED <<sync_vars, add_vars, dm_vars>>

\* The machines of the model
Answered(out) == [result |-> "ran", code |-> 0, out |-> out]
Unanswered == {NoTool, [NoTool EXCEPT !.result = "timeout"],
               [result |-> "ran", code |-> 1, out |-> <<>>]}
GpuFields == <<<<"R", "T", "X">>, <<"5", "5", "0">>, <<"8", "G">>>>
QueryTools == Unanswered \cup {Answered(<<>>), Answered(<<GpuFields[1]>>), Answered(GpuFields)}
\* the banner shows CUDA Version 12.4, 13.0, 11.8, 10.2, or none
SmiTools ==
    Unanswered \cup {Answered(v) : v \in {<<>>, <<"1", "2", ".", "4">>, <<"1", "3", ".", "0">>,
                                          <<"1", "1", ".", "8">>, <<"1", "0", ".", "2">>}}
SysctlTools == Unanswered \cup {Answered(Apple \o <<" ", "M", "1", " ">>), Answered(<<"I", "n", "t", "e", "l">>)}
RocmTools == Unanswered \cup {Answered(<<"M", "I">>)}
Machines ==
    {m \in [system : {"Darwin", "Linux"}, query : QueryTools, smi : SmiTools,
            sysctl : SysctlTools, rocm : RocmTools, nightly : BOOLEAN] :
        (m.query.result = "missing") <=> (m.smi.result = "missing")}

InitDetect ==
    /\ nodes_yaml = NoFile
    /\ models_yaml = NoFile
    /\ exit_code = -1
    /\ SyncIdle
    /\ AddIdle
    /\ DmIdle
    /\ machine \in Machines
    /\ gpu_pc = "detect_nvidia"
    /\ gpu_info = NoGpu
    /\ probes = <<>>
    /\ plan = NoPlan

NextDetect == DetectNvidia \/ DetectApple \/ DetectAmd \/ Recommend

SpecDetect == InitDetect /\ [][NextDetect]_vars

(***************************************************************************)
(* download_models.py                                                      *)
(*                                                                         *)
(* The aria2c input is kept as its lines, which "\n".join puts together.   *)
(***************************************************************************)
\* str(folder) of the keys the model's registries use
FolderText ==
    ("loras" :> <<"l", "o", "r", "a", "s">>) @@ ("vae" :> <<"v", "a", "e">>)

RECURSIVE ModelsOf(_, _)
ModelsOf(folder, items) ==
    IF items = <<>> THEN <<>>
    ELSE (IF items[1].url # <<>>
          THEN <<[url |-> items[1].url, folder |-> folder, name |-> items[1].name]>>
          ELSE <<>>)
         \o ModelsOf(folder, Tail(items))

\* load_models_from_yaml, after safe_load: the dict items with a "url", each
\* with the key it is listed under; a dict without "url" has url = <<>>
RECURSIVE load_models_from_yaml(_)
load_models_from_yaml(map) ==
    IF map = <<>> THEN <<>>
    ELSE (IF map[1].isList THEN ModelsOf(map[1].cat, map[1].urls) ELSE <<>>)
         \o load_models_from_yaml(Tail(map))

OutPrefix == <<" ", " ", "o", "u", "t", "=">>

\* generate_aria2_input, line 53, with the folder put before every name
output_path_joined(model) == FolderText[model.folder] \o <<Slash>> \o model.name

\* generate_aria2_input, line 53: folder/name, the folder when the name is
\* None or empty
output_path(model) ==
    IF model.name # <<>>
    THEN FolderText[model.folder] \o <<Slash>> \o model.name
    ELSE FolderText[model.folder]

\* generate_aria2_input
RECURSIVE generate_aria2_input(_)
generate_aria2_input(ms) ==
    IF ms = <<>> THEN <<>>
    ELSE <<ms[1].url, OutPrefix \o output_path(ms[1])>> \o generate_aria2_input(Tail(ms))

\* main, lines 72-78: the config file is checked and loaded
DmLoad ==
    /\ dm_pc = "start"
    /\ \E config \in {safe_load(models_yaml.lines, "models")} :
        IF ~models_yaml.exists
        THEN /\ dm_pc' = "done"
             /\ exit_code' = 1
             /\ UNCHANGED models
        ELSE IF config.isNone
        THEN /\ dm_pc' = "crashed"
             /\ exit_code' = 1
             /\ UNCHANGED models
        ELSE /\ models' = load_models_from_yaml(config.map)
             /\ dm_pc' = "loaded"
             /\ UNCHANGED exit_code
    /\ UNCHANGED <<aria2_content, temp_file, aria2_runs, nodes_yaml, models_yaml>>
    /\ UNCHANGED <<sync_vars, add_vars, gpu_vars>>

\* main, line 81
DmGenerate ==
    /\ dm_pc = "loaded"
    /\ aria2_content' = generate_aria2_input(models)
    /\ dm_pc' = "generated"
    /\ UNCHANGED <<models, temp_file, aria2_runs, exit_code, nodes_yaml, models_yaml>>
    /\ UNCHANGED <<sync_vars, add_vars, gpu_vars>>

\* main, lines 84-86
DmWriteTemp ==
    /\ dm_pc = "generated"
    /\ temp_file' = File(aria2_content)
    /\ dm_pc' = "written"
    /\ UNCHANGED <<models, aria2_content, aria2_runs, exit_code, nodes_yaml, models_yaml>>
    /\ UNCHANGED <<sync_vars, add_vars, gpu_vars>>

\* what subprocess.run(["aria2c", ...]) meets: no executable, or its code
Aria2Outcomes == {"missing", "0", "1"}

\* main, lines 90-110: aria2c is run on the temporary file, which is removed
\* whatever happens; the status is aria2c's, 1 when it cannot be started
DmRunAria2 ==
    /\ dm_pc = "written"
    /\ \E outcome \in Aria2Outcomes :
        /\ aria2_runs' = Append(aria2_runs, [input |-> temp_file.lines, outcome |-> outcome])
        /\ exit_code' = IF outcome = "0" THEN 0 ELSE 1
        /\ dm_pc' = IF outcome = "missing" THEN "crashed" ELSE "done"
    /\ temp_file' = NoFile
    /\ UNCHANGED <<models, aria2_content, nodes_yaml, models_yaml>>
    /\ UNCHANGED <<sync_vars, add_vars, gpu_vars>>

\* The registries of the model: up to MaxAssets items under two keys
DmItems ==
    {[url |-> UrlModel, name |-> NameMS], [url |-> UrlModel, name |-> <<>>],
     [url |-> UrlResolve, name |-> <<"n">>], [url |-> <<>>, name |-> NameMS]}
RECURSIVE DictLines(_)
DictLines(items) ==
    IF items = <<>> THEN <<>> ELSE <<DictLine(items[1])>> \o DictLines(Tail(items))
DmDoc(s1, s2) ==
    <<KeyLine("loras")>> \o DictLines(s1) \o <<KeyLine("vae")>> \o DictLines(s2)
DownloadFiles ==
    {NoFile, File(<<>>), File(<<FlowEmptyLine>>)}
    \cup {File(DmDoc(s1, s2)) : s1, s2 \in SeqsUpTo(DmItems, MaxAssets)}

InitDownload ==
    /\ models_yaml \in {f \in DownloadFiles : Cardinality(Items(f.lines)) <= MaxAssets}
    /\ nodes_yaml = NoFile
    /\ exit_code = -1
    /\ SyncIdle
    /\ AddIdle
    /\ GpuIdle
    /\ dm_pc = "start"
    /\ models = <<>>
    /\ aria2_content = <<>>
    /\ temp_file = NoFile
    /\ aria2_runs = <<>>

NextDownload == DmLoad \/ DmGenerate \/ DmWriteTemp \/ DmRunAria2

SpecDownload == InitDownload /\ [][NextDownload]_vars

(***************************************************************************)
(* Properties of download_nodes.py                                         *)
(***************************************************************************)
\* The events of the run in progress: the last idx - 1 events of the log
RunLog == SubSeq(log, Len(log) - idx + 2, Len(log))
InRun == pc \in {"loop", "done"}
CountRet(evs, b) == Cardinality({i \in 1..Len(evs) : evs[i].ret = b})
DirsBefore(i) == IF i = 1 THEN {} ELSE log[i - 1].dirs

\* The URL without trailing slashes and without one ".git" suffix, and its
\* last path segment
NormalizedUrl(url) ==
    LET u == RStrip(url, {Slash})
    IN  IF EndsWith(u, DotGit) THEN SubSeq(u, 1, Len(u) - Len(DotGit)) ELSE u
LastSegment(url) == AfterLast(NormalizedUrl(url), Slash)

\* C1: a node-sync run processes every registry entry exactly once and in
\* order, a failed entry does not stop the later ones, succeeded + failed = N
\* at the end, and every successfully cloned entry has its directory on disk.
C1_FailureIsolation ==
    InRun =>
        /\ Len(log) >= idx - 1
        /\ idx - 1 <= Len(repos)
        /\ \A i \in 1..(idx - 1) : RunLog[i].entry = repos[i]
        /\ success_count = CountRet(RunLog, TRUE)
        /\ fail_count = CountRet(RunLog, FALSE)
        /\ success_count + fail_count = idx - 1
        /\ pc = "done" =>
              /\ idx - 1 = Len(repos)
              /\ report.successful + report.failed = Len(repos)
        /\ \A i \in 1..Len(log) :
              (log[i].op = "clone" /\ log[i].ret) => log[i].dir \in DirNames(disk)

\* three entries, the second invalid: 2 successes, 1 failure, both directories
C1_Witness ==
    /\ pc = "done"
    /\ repos = <<UrlAX, UrlBare, UrlANet>>
    /\ log[2].op = "invalid_url"
    /\ report.successful = 2
    /\ report.failed = 1
    /\ Cardinality(DirNames(disk)) = 2

\* C2: reconciling the same entry twice in a row, the first time with a
\* successful clone, pulls the second time and never clones again, and the
\* set of directories is the same after both calls; the same holds for an
\* entry cloned in the first run when the whole run is repeated.
C2_Idempotence ==
    /\ \A i \in 1..(Len(log) - 1) :
          (log[i].entry = log[i + 1].entry /\ log[i].op = "clone" /\ log[i].ret) =>
              /\ log[i + 1].op = "pull"
              /\ log[i + 1].flags = PullFlags
              /\ log[i + 1].dirs = log[i].dirs
    /\ (rerun /\ InRun) =>
          \A i \in 1..(idx - 1) :
              (log[i].op = "clone" /\ log[i].ret) =>
                  /\ RunLog[i].entry = log[i].entry
                  /\ RunLog[i].op = "pull"
                  /\ RunLog[i].dir = log[i].dir

C2_Witness ==
    /\ rerun
    /\ pc = "done"
    /\ repos = <<UrlAX>>
    /\ Len(log) = 2
    /\ log[1].op = "clone" /\ log[1].ret
    /\ log[2].op = "pull"
    /\ log[2].dirs = log[1].dirs

\* C3: the directory reconcile uses for an entry is the last non-empty path
\* segment of the normalized repository URL, verbatim, for every name.
C3_DirNameIsLastSegment ==
    \A i \in 1..Len(log) :
        log[i].op \in {"clone", "pull"} => log[i].dir = LastSegment(log[i].entry)

\* C5: an entry whose directory exists is only pulled with --ff-only, never
\* cloned or forced; a failed pull is logged as skipped, returns success, is
\* not counted as failed, and the loop goes on.
C5_PullNotFatal ==
    /\ \A i \in 1..Len(log) :
          /\ (log[i].op # "invalid_url" /\ log[i].dir \in DirsBefore(i)) =>
                /\ log[i].op = "pull"
                /\ log[i].flags = {"--ff-only"}
                /\ log[i].dirs = DirsBefore(i)
          /\ log[i].op = "pull" =>
                /\ log[i].dir \in DirsBefore(i)
                /\ log[i].ret
                /\ log[i].rc # 0 => log[i].msg = "update_skipped"
    /\ InRun =>
          /\ Len(log) >= idx - 1
          /\ fail_count = Cardinality({i \in 1..(idx - 1) : RunLog[i].op # "pull" /\ ~RunLog[i].ret})
          /\ pc = "done" => idx - 1 = Len(repos)

\* a failed pull in the middle of a run that went on to the end
C5_Witness ==
    /\ pc = "done"
    /\ Len(repos) = 3
    /\ RunLog[2].op = "pull"
    /\ RunLog[2].rc # 0
    /\ RunLog[3].op = "clone" /\ RunLog[3].ret
    /\ fail_count = 0
    /\ success_count = 3

\* The registry file exists and lists no URL
ZeroEntries(f) == f.exists /\ \A i \in 1..Len(f.lines) : f.lines[i].k # "item"

\* C8: a run whose registry source exists and has zero entries completes
\* normally with succeeded = 0 and failed = 0.
C8_EmptyRegistryIsValid ==
    (ZeroEntries(nodes_yaml) /\ pc # "start") =>
        /\ pc \in {"loop", "done"}
        /\ pc = "done" =>
              /\ report.printed
              /\ report.successful = 0
              /\ report.failed = 0
              /\ exit_code = 0

\* C9 as stated: a run that reaches the loop prints the whole summary and
\* exits non-zero exactly when the failed count is greater than zero.
C9_ExitNonZeroIffFailed ==
    pc = "done" =>
        /\ report.printed
        /\ (exit_code # 0) <=> (fail_count > 0)

\* C9 amended: a run that reaches the loop ends with the whole summary, the
\* counts being those of the loop; the tip is emitted exactly when nothing
\* failed; the exit status is 0 whatever the failed count.
C9_SummaryAndExitZero ==
    /\ pc = "loop" => ~report.printed
    /\ pc = "done" =>
          /\ report.printed
          /\ report.successful = success_count
          /\ report.failed = fail_count
          /\ report.tip <=> (fail_count = 0)
          /\ exit_code = 0

C9_Witness ==
    /\ pc = "done"
    /\ report.printed
    /\ report.failed > 0
    /\ report.successful > 0
    /\ ~report.tip
    /\ exit_code = 0

\* C10: an entry is never pulled in a directory that was created for another
\* repository URL (the run has no other way to report a collision).
C10_NoSilentMerge ==
    \A i \in 1..Len(log) :
        log[i].op = "pull" => NormalizedUrl(log[i].remote) = NormalizedUrl(log[i].entry)

(***************************************************************************)
(* Properties of add_node.py and of the registry write                     *)
(***************************************************************************)
\* The URLs of the persisted node registry, in file order
RegistryUrls(file) == load_repos_from_yaml(load_config(file, "nodes"))

\* C4: after any sequence of add_node operations from an empty or
\* duplicate-free registry the persisted registry holds at most one entry per
\* normalized repository URL, over all categories.
C4_OneEntryPerRepo ==
    add_pc = "idle" =>
        LET us == RegistryUrls(nodes_yaml)
        IN  \A i, j \in 1..Len(us) :
                NormalizedUrl(us[i]) = NormalizedUrl(us[j]) => i = j

\* C6: when the write of an add operation fails or is interrupted, the
\* registry persisted before the operation is still there with all of its
\* entries.
C6_WriteNeverPartial ==
    add_req.outcome = "interrupted" =>
        /\ nodes_yaml.exists
        /\ \A i \in Items(add_prev.lines) :
              \E j \in Items(nodes_yaml.lines) : nodes_yaml.lines[j] = add_prev.lines[i]

(***************************************************************************)
(* Properties of add_model.py                                              *)
(***************************************************************************)
\* How many entries of the persisted model registry have the key (folder, name)
KeyCount(file, folder, name) ==
    Cardinality({i \in Items(file.lines) :
        /\ file.lines[i].name = name
        /\ \E k \in 1..(i - 1) :
              /\ file.lines[k].k = "key"
              /\ file.lines[k].cat = folder
              /\ \A j \in (k + 1)..(i - 1) : file.lines[j].k = "item"})

\* The answers that are a "y" once trimmed and lower-cased
YesAnswers == {<<"y">>, <<"Y">>, <<" ", "y">>}

\* The last add_model run got as far as the duplicate check
PastValidation == add_req.outcome \in {"cancelled", "write", "added", "interrupted"}

\* C7: adding a model whose (folder, name) key is already in the registry
\* asks for confirmation; declined (the answer is not "y"), the registry is
\* unchanged, keeps its entries for the key and the script exits 0; an entry
\* is added for a key that is already there only when the answer was "y".
C7_DuplicateNeedsConfirmation ==
    LET before == KeyCount(add_prev, add_req.key, add_req.name)
        now == KeyCount(models_yaml, add_req.key, add_req.name)
    IN  /\ PastValidation => (add_req.prompted <=> before >= 1)
        /\ (PastValidation /\ add_req.prompted /\ add_req.answer \notin YesAnswers) =>
              /\ add_req.outcome = "cancelled"
              /\ add_pc = "idle"
              /\ models_yaml = add_prev
              /\ now = before
              /\ exit_code = 0
        /\ (add_req.outcome = "added" /\ before >= 1) =>
              /\ add_req.answer \in YesAnswers
              /\ now = before + 1
        /\ (add_req.outcome = "added" /\ before = 0) => now = 1
        /\ add_req.outcome = "cancelled" => add_req.prompted

\* the same key added again and declined: one entry, exit 0
C7_WitnessDeclined ==
    /\ add_req.outcome = "cancelled"
    /\ add_req.answer = <<>>
    /\ KeyCount(models_yaml, add_req.key, add_req.name) = 1
    /\ models_yaml = add_prev
    /\ exit_code = 0

(***************************************************************************)
(* Properties of the validation of the add scripts                         *)
(***************************************************************************)
\* The category key the item line i of a file stands under
KeyOfItem(ls, i) ==
    LET k == CHOOSE k \in 1..(i - 1) :
                 /\ ls[k].k = "key"
                 /\ \A j \in (k + 1)..(i - 1) : ls[j].k = "item"
    IN  ls[k].cat

\* The key "other" of the file is there with no list under it
OtherIsNull(f) ==
    \E i \in 1..Len(f.lines) :
        /\ f.lines[i] = KeyLine("other")
        /\ (i = Len(f.lines) \/ f.lines[i + 1].k # "item")

\* C11: add_model with a folder outside VALID_FOLDERS exits non-zero and
\* leaves the model registry as it was; add_node with a category outside
\* VALID_CATEGORIES is not rejected for it: the run fails only for an invalid
\* URL (or a registry whose "other" key holds no list), and an added entry
\* is stored under "other", never under the unknown category.
C11_AsymmetricValidation ==
    /\ (models_yaml.exists /\ add_req.outcome # "none") =>
          /\ (add_req.key \notin VALID_FOLDERS) <=> (add_req.outcome = "invalid_folder")
          /\ add_req.outcome = "invalid_folder" =>
                /\ exit_code = 1
                /\ add_pc = "idle"
                /\ models_yaml = add_prev
    /\ (nodes_yaml.exists /\ add_req.outcome # "none"
          /\ add_req.key \notin VALID_CATEGORIES) =>
          /\ add_req.outcome \in
                {"invalid_url", "node_exists", "crashed", "write", "added", "interrupted"}
          /\ add_req.outcome = "invalid_url" =>
                ~(StartsWith(NormalizedUrl(add_req.url), GitHub)
                  /\ Count(NormalizedUrl(add_req.url), Slash) >= 4)
          /\ add_req.outcome = "crashed" => OtherIsNull(add_prev)
          /\ \A i \in Items(nodes_yaml.lines) :
                KeyOfItem(nodes_yaml.lines, i) # add_req.key
          /\ add_req.outcome = "added" =>
                /\ exit_code = 0
                /\ \E i \in Items(nodes_yaml.lines) :
                      /\ nodes_yaml.lines[i].url = NormalizedUrl(add_req.url)
                      /\ KeyOfItem(nodes_yaml.lines, i) = "other"
                      /\ (i = Len(nodes_yaml.lines) \/ nodes_yaml.lines[i + 1].k # "item")

\* an add_model run with an unknown folder against a registry with an entry
C11_WitnessInvalidFolder ==
    /\ models_yaml.exists
    /\ add_req.outcome = "invalid_folder"
    /\ add_req.key = "models"
    /\ exit_code = 1
    /\ Items(models_yaml.lines) # {}
    /\ models_yaml = add_prev

(***************************************************************************)
(* Properties of detect_gpu.py                                             *)
(***************************************************************************)
ProbeOrder == <<"nvidia-smi --query-gpu", "nvidia-smi", "sysctl", "rocm-smi">>
Rank(cmd) == CHOOSE i \in 1..Len(ProbeOrder) : ProbeOrder[i] = cmd
HasRun(cmd) == \E i \in 1..Len(probes) : probes[i].cmd = cmd
Unavailable(tool) == tool.result \in {"missing", "timeout"}
Detected == gpu_pc \in {"recommend", "done", "crashed"}

\* What each vendor's tool says about the machine
NvidiaPresent == machine.query.result = "ran" /\ machine.query.code = 0
                 /\ Len(machine.query.out) >= 3
ApplePresent == machine.system = "Darwin" /\ machine.sysctl.result = "ran"
                /\ machine.sysctl.code = 0
                /\ \E i \in 1..(Len(machine.sysctl.out) - 4) :
                      SubSeq(machine.sysctl.out, i, i + 4) = Apple
AmdPresent == machine.rocm.result = "ran" /\ machine.rocm.code = 0
FirstPresent ==
    IF NvidiaPresent THEN "nvidia"
    ELSE IF ApplePresent THEN "mps"
    ELSE IF AmdPresent THEN "rocm"
    ELSE "none"

\* C12: the probes run in the order NVIDIA, Apple silicon, AMD and stop at the
\* first one that detects a backend, later probes not being run; when every
\* probe fails the profile is None; a probe whose tool is missing or times
\* out counts as "not present" (code -1, the next probe runs) and detection
\* ends without an error.
C12_ProbeOrder ==
    /\ \A i, j \in 1..Len(probes) : i < j => Rank(probes[i].cmd) < Rank(probes[j].cmd)
    /\ \A i \in 1..Len(probes) :
          /\ probes[i].cmd = "nvidia-smi --query-gpu" /\ Unavailable(machine.query)
             => probes[i].code = -1
          /\ probes[i].cmd = "sysctl" /\ Unavailable(machine.sysctl)
             => probes[i].code = -1
          /\ probes[i].cmd = "rocm-smi" /\ Unavailable(machine.rocm)
             => probes[i].code = -1
    /\ gpu_pc \in {"detect_apple", "detect_amd"} => gpu_info = NoGpu
    /\ Detected =>
          /\ gpu_info.type = FirstPresent
          /\ HasRun("nvidia-smi --query-gpu")
          /\ HasRun("sysctl") <=> (~NvidiaPresent /\ machine.system = "Darwin")
          /\ HasRun("rocm-smi") <=> (~NvidiaPresent /\ ~ApplePresent)
          /\ Unavailable(machine.query) => gpu_info.type # "nvidia"
          /\ Unavailable(machine.sysctl) => gpu_info.type # "mps"
          /\ Unavailable(machine.rocm) => gpu_info.type # "rocm"
          /\ Unavailable(machine.query) /\ Unavailable(machine.sysctl)
             /\ Unavailable(machine.rocm) => gpu_info = NoGpu /\ gpu_pc # "crashed"
    /\ gpu_pc = "crashed" => plan.raised /\ gpu_info.type = "nvidia"

\* NVIDIA's tool is missing, Apple's times out, AMD's answers: all three
\* probes ran and the AMD profile was recommended for
C12_WitnessThirdProbe ==
    /\ gpu_pc = "done"
    /\ machine.query.result = "missing"
    /\ machine.system = "Darwin"
    /\ machine.sysctl.result = "timeout"
    /\ gpu_info.type = "rocm"
    /\ Len(probes) = 3

\* The PyTorch build the compatibility table gives a detected CUDA version:
\* its major number looked up in the table, cu128 when the major is not in
\* the table or no version was determined
MajorOf(version) == SubSeq(version, 1, (CHOOSE i \in 1..Len(version) : version[i] = ".") - 1)
ExpectedCuda(info) ==
    IF ~info.cuda_known THEN "cu128"
    ELSE IF MajorOf(info.cuda_version) = <<"1", "3">> THEN "cu130"
    ELSE IF MajorOf(info.cuda_version) = <<"1", "2">> THEN "cu128"
    ELSE IF MajorOf(info.cuda_version) = <<"1", "1">> THEN "cu118"
    ELSE "cu128"

\* C13: for an NVIDIA profile get_pytorch_install_command always returns a
\* plan and never raises: major version 12 gives cu128, a major version that
\* is not in the table gives cu128, and so does a profile whose CUDA version
\* detection could not determine (None).
C13_NvidiaPlanTotal ==
    gpu_pc \in {"done", "crashed"} /\ gpu_info.type = "nvidia" =>
        /\ gpu_pc = "done"
        /\ plan.made
        /\ ~plan.raised
        /\ plan.cuda = ExpectedCuda(gpu_info)

(***************************************************************************)
(* Properties of extract_filename                                          *)
(***************************************************************************)
\* The decoded final path component of each URL (pathlib's: a trailing "/" is
\* not a component, an escaped "/" separates components), as Python computes it
FinalSegment ==
    (UrlModel :> NameMS)                    \* https://h/a/m.s
    @@ (UrlModelQuery :> NameMS)            \* https://h/a/m.s?x=1
    @@ (UrlFragment :> NameMS)              \* https://h/a/m.s#f
    @@ (UrlSlashEscaped :> NameMS)          \* https://h/a%2Fm.s
    @@ (UrlSpace :> <<"m", " ", "s">>)      \* https://h/m%20s
    @@ (UrlTrailingSlash :> <<"a">>)        \* https://h/a/
    @@ (UrlEscaped :> <<"m", "?", "v">>)    \* https://h/m%3Fv
    @@ (UrlNumericEscaped :> <<"1", "2", "?", "x">>)   \* https://h/12%3Fx
    @@ (UrlQueryEscaped :> <<"?", "x">>)    \* https://h/%3Fx
    @@ (UrlResolve :> Resolve)              \* https://h/a/resolve
    @@ (UrlDownload :> Download)            \* https://h/a/download
    @@ (UrlNumeric :> <<"1", "2">>)         \* https://h/a/12
    @@ (UrlNumericQuery :> <<"1", "2">>)    \* https://h/a/12?x=1
    @@ (UrlHostOnly :> <<>>)                \* https://h/
    @@ (UrlNoPath :> <<>>)                  \* https://h

\* The segment up to a "?" it may still hold
WithoutQuery(seg) ==
    IF \E i \in 1..Len(seg) : seg[i] = "?"
    THEN SubSeq(seg, 1, (CHOOSE i \in 1..Len(seg) :
                            seg[i] = "?" /\ \A j \in 1..(i - 1) : seg[j] # "?") - 1)
    ELSE seg

AllDigits(seg) ==
    seg # <<>> /\ \A i \in 1..Len(seg) :
        seg[i] \in {"0", "1", "2", "3", "4", "5", "6", "7", "8", "9"}

\* No name can be derived: the segment is empty, "download", "resolve" or
\* purely numeric, or nothing is left of it before the "?"
Underivable(seg) ==
    \/ seg = <<>>
    \/ seg = <<"d", "o", "w", "n", "l", "o", "a", "d">>
    \/ seg = <<"r", "e", "s", "o", "l", "v", "e">>
    \/ AllDigits(seg)
    \/ WithoutQuery(seg) = <<>>

Derived == add_req.outcome # "none" /\ add_req.key \in VALID_FOLDERS

\* C14: a run of add_model without a name derives the filename from the URL:
\* it is the URL-decoded final path segment with the query string removed
\* (https://h/a/m.s?x=1 gives m.s); when that segment is empty, "download",
\* "resolve" or purely numeric there is no name: the run exits with status 1
\* and the registry file is left as it was.
C14_FilenameDerivation ==
    Derived =>
        LET seg == FinalSegment[add_req.url]
        IN  IF Underivable(seg)
            THEN /\ add_req.outcome = "filename_extraction_failed"
                 /\ add_req.name = <<>>
                 /\ exit_code = 1
                 /\ add_pc = "idle"
                 /\ models_yaml = add_prev
            ELSE /\ add_req.outcome # "filename_extraction_failed"
                 /\ add_req.name = WithoutQuery(seg)
                 /\ add_req.url = UrlModelQuery => add_req.name = <<"m", ".", "s">>

\* An earlier run derived the name m.s from a URL with a query string and
\* wrote it; the run for a URL ending in a number then left that file alone
\* and ended with status 1
C14_WitnessDerivedThenRefused ==
    /\ \E i \in 1..Len(models_yaml.lines) :
          models_yaml.lines[i].url = UrlModelQuery /\ models_yaml.lines[i].name = NameMS
    /\ add_req.url = UrlNumericQuery
    /\ add_req.key \in VALID_FOLDERS
    /\ add_req.outcome = "filename_extraction_failed"
    /\ exit_code = 1
    /\ models_yaml = add_prev

(***************************************************************************)
(* Properties of download_models.py                                        *)
(***************************************************************************)
\* The asset entries of the registry file: its item lines that have a URL
AssetLines == {i \in 1..Len(models_yaml.lines) :
                  models_yaml.lines[i].k = "item" /\ models_yaml.lines[i].url # <<>>}
\* The place of asset line i among them, in file order
PlaceOf(i) == Cardinality({j \in AssetLines : j <= i})
\* "  out=" and the out path the asset of line i is to have
OutLineOf(i) ==
    LET l == models_yaml.lines[i]
        folder == FolderText[KeyOfItem(models_yaml.lines, i)]
    IN  <<" ", " ", "o", "u", "t", "=">>
        \o (IF l.name = <<>> THEN folder ELSE folder \o <<"/">> \o l.name)
ManifestMade == dm_pc \in {"generated", "written"} \/ aria2_runs # <<>>

\* C15: the manifest holds one (url, out path) pair per asset entry of the
\* registry, in the registry's order; the out path is the folder alone when
\* the entry has no name and folder/name otherwise; making the manifest
\* writes no file and starts no process; the downloader is started once in a
\* run, on the whole manifest.
C15_ManifestAndSingleRun ==
    /\ ManifestMade =>
          /\ Len(aria2_content) = 2 * Cardinality(AssetLines)
          /\ \A i \in AssetLines :
                /\ aria2_content[2 * PlaceOf(i) - 1] = models_yaml.lines[i].url
                /\ aria2_content[2 * PlaceOf(i)] = OutLineOf(i)
    /\ dm_pc = "generated" => ~temp_file.exists /\ aria2_runs = <<>>
    /\ dm_pc \in {"start", "loaded", "generated", "written"} => aria2_runs = <<>>
    /\ Len(aria2_runs) <= 1
    /\ ManifestMade /\ dm_pc \in {"done", "crashed"} =>
          /\ Len(aria2_runs) = 1
          /\ aria2_runs[1].input = aria2_content
          /\ ~temp_file.exists

\* A run over a registry with a nameless entry under loras and a named one
\* under vae: two pairs, "out=loras" and "out=vae/m.s", one downloader run
C15_WitnessTwoPairs ==
    /\ dm_pc = "done"
    /\ Len(aria2_runs) = 1
    /\ Len(aria2_runs[1].input) = 4
    /\ aria2_runs[1].input[1] = UrlModel
    /\ aria2_runs[1].input[2] = <<" ", " ", "o", "u", "t", "=", "l", "o", "r", "a", "s">>
    /\ aria2_runs[1].input[4]
         = <<" ", " ", "o", "u", "t", "=", "v", "a", "e", "/", "m", ".", "s">>
    /\ Cardinality(Items(models_yaml.lines)) = 2

====
